---- MODULE Spec2Model ----
(***************************************************************************)
(* Model of the wallet manager: the transaction-application state machine  *)
(* of WalletManager::run (src/src/wallet_manager.rs), the balance          *)
(* operations of Wallet (src/src/wallet.rs) and the wiring of main         *)
(* (src/src/main.rs): a producer feeding an unbounded in-order channel, the *)
(* engine loop, the failure channel and the final export.                  *)
(*                                                                         *)
(* Amount wraps an f32.  Amounts are modelled in whole units, and the      *)
(* bounds keep every balance far inside the range (|x| < 2^24) where f32   *)
(* addition, subtraction and comparison of whole numbers are exact, so the *)
(* integer operators +, - and >= below are what the code computes on these *)
(* inputs.  Balances are Int, not Nat: f32 subtraction never saturates.    *)
(***************************************************************************)
EXTENDS Integers, Sequences, FiniteSets, TLC

\* ---------------------------------------------------------------- bounds
NumClients == 2
NumTx      == 2
MaxAmount  == 1
MaxEvents  == 4
MaxQueue   == 2

Clients == 1..NumClients
TxIds   == 1..NumTx
\* Amount::try_from accepts every value >= 0.0, zero included.
Amounts == 0..MaxAmount

\* ------------------------------------------------- transaction.rs values
Deposit(c, t, a)    == [kind |-> "Deposit",    client |-> c, tx_id |-> t, amount |-> a]
Withdrawal(c, t, a) == [kind |-> "Withdrawal", client |-> c, tx_id |-> t, amount |-> a]
Dispute(c, t)       == [kind |-> "Dispute",    client |-> c, tx_id |-> t]
Resolve(c, t)       == [kind |-> "Resolve",    client |-> c, tx_id |-> t]
ChargeBack(c, t)    == [kind |-> "ChargeBack", client |-> c, tx_id |-> t]

Transaction ==
    {Deposit(c, t, a) : c \in Clients, t \in TxIds, a \in Amounts}
    \cup {Withdrawal(c, t, a) : c \in Clients, t \in TxIds, a \in Amounts}
    \cup {Dispute(c, t) : c \in Clients, t \in TxIds}
    \cup {Resolve(c, t) : c \in Clients, t \in TxIds}
    \cup {ChargeBack(c, t) : c \in Clients, t \in TxIds}

InsufficientFundsReason == "Insufficient funds"
NoWalletReason          == "No wallet found for client"
DisputeWithdrawReason   == "Can't dispute a withdraw!"
DisputeNotFoundReason   == "Transaction to dispute was not found!"
SettleNotFoundReason    == "Disputed transaction not found for settlement!"
ChargeBackNotFoundReason == "Disputed transaction not found for charge back!"

Failure_new(c, t, reason) == [client |-> c, tx |-> t, reason |-> reason]
Failure_insufficient_funds(c, t) == Failure_new(c, t, InsufficientFundsReason)
Failure_no_wallet(c, t) == Failure_new(c, t, NoWalletReason)

\* Result<(), Failure>
Ok == [ok |-> TRUE]
Err(f) == [ok |-> FALSE, failure |-> f]

\* HashMap / DashMap insert: the new value replaces an existing one.
Insert(m, k, v) == (k :> v) @@ m
EmptyMap == << >>

\* ---------------------------------------------------------- wallet.rs
Balance_new == [available |-> 0, held |-> 0, total |-> 0]

Wallet_new(c) ==
    [client |-> c, balance |-> Balance_new, locked |-> FALSE, open_disputes |-> EmptyMap]

\* Mutant of Wallet_dispute: the amount leaves available and never reaches held.
Wallet_dispute_NoHeld(w, tx, amount) ==
    [w EXCEPT !.balance.available = @ - amount,
              !.open_disputes = Insert(@, tx, amount)]

Wallet_dispute(w, tx, amount) ==
    [w EXCEPT !.balance.available = @ - amount,
              !.balance.held = @ + amount,
              !.open_disputes = Insert(@, tx, amount)]

\* Mutant of Wallet_deposit: total is not increased.
Wallet_deposit_NoTotal(w, tx, amount) ==
    [w EXCEPT !.balance.available = @ + amount]

Wallet_deposit(w, tx, amount) ==
    [w EXCEPT !.balance.available = @ + amount,
              !.balance.total = @ + amount]

\* Mutant of Wallet_settle_dispute: the amount returns to available and stays
\* in held.
Wallet_settle_dispute_KeepsHeld(w, tx) ==
    IF tx \in DOMAIN w.open_disputes
    THEN [wallet |-> [w EXCEPT !.balance.available = @ + w.open_disputes[tx]],
          res |-> Ok]
    ELSE [wallet |-> w, res |-> Err(Failure_new(w.client, tx, SettleNotFoundReason))]

\* Each fallible operation yields the wallet it leaves behind and its Result.
Wallet_settle_dispute(w, tx) ==
    IF tx \in DOMAIN w.open_disputes
    THEN [wallet |-> [w EXCEPT !.balance.held = @ - w.open_disputes[tx],
                               !.balance.available = @ + w.open_disputes[tx]],
          res |-> Ok]
    ELSE [wallet |-> w, res |-> Err(Failure_new(w.client, tx, SettleNotFoundReason))]

\* Mutant of Wallet_charge_back: the held amount is released but stays in
\* the total.
Wallet_charge_back_KeepsTotal(w, tx) ==
    IF tx \in DOMAIN w.open_disputes
    THEN [wallet |-> [w EXCEPT !.balance.held = @ - w.open_disputes[tx],
                               !.locked = TRUE],
          res |-> Ok]
    ELSE [wallet |-> w, res |-> Err(Failure_new(w.client, tx, ChargeBackNotFoundReason))]

\* Mutant of Wallet_charge_back: the account is not locked.
Wallet_charge_back_NoLock(w, tx) ==
    IF tx \in DOMAIN w.open_disputes
    THEN [wallet |-> [w EXCEPT !.balance.held = @ - w.open_disputes[tx],
                               !.balance.total = @ - w.open_disputes[tx]],
          res |-> Ok]
    ELSE [wallet |-> w, res |-> Err(Failure_new(w.client, tx, ChargeBackNotFoundReason))]

Wallet_charge_back(w, tx) ==
    IF tx \in DOMAIN w.open_disputes
    THEN [wallet |-> [w EXCEPT !.balance.held = @ - w.open_disputes[tx],
                               !.balance.total = @ - w.open_disputes[tx],
                               !.locked = TRUE],
          res |-> Ok]
    ELSE [wallet |-> w, res |-> Err(Failure_new(w.client, tx, ChargeBackNotFoundReason))]

\* Mutant of Wallet_withdraw: a locked account refuses withdrawals.
Wallet_withdraw_RefusesLocked(w, tx, amount) ==
    IF ~w.locked /\ w.balance.available >= amount
    THEN [wallet |-> [w EXCEPT !.balance.available = @ - amount,
                               !.balance.total = @ - amount],
          res |-> Ok]
    ELSE [wallet |-> w, res |-> Err(Failure_insufficient_funds(w.client, tx))]

\* Mutant of Wallet_withdraw: the comparison is strict.
Wallet_withdraw_Strict(w, tx, amount) ==
    IF w.balance.available > amount
    THEN [wallet |-> [w EXCEPT !.balance.available = @ - amount,
                               !.balance.total = @ - amount],
          res |-> Ok]
    ELSE [wallet |-> w, res |-> Err(Failure_insufficient_funds(w.client, tx))]

Wallet_withdraw(w, tx, amount) ==
    IF w.balance.available >= amount
    THEN [wallet |-> [w EXCEPT !.balance.available = @ - amount,
                               !.balance.total = @ - amount],
          res |-> Ok]
    ELSE [wallet |-> w, res |-> Err(Failure_insufficient_funds(w.client, tx))]

\* ---------------------------------------------------------------- state
VARIABLES
    wallets,              \* WalletManager.wallets: Client -> Wallet
    transaction_journal,  \* WalletManager.transaction_journal: Client -> (TransactionId -> Transaction)
    tx_chan,              \* events sent on the transaction channel and not yet received
    tx_closed,            \* the channel's only sender (the producer's) has been dropped
    sent,                 \* number of events the producer has sent
    err_chan,             \* failures sent on the failure channel and not yet received
    err_open,             \* the failure channel's receiver is alive
    run_pc,               \* where run is: "recv" (awaiting an event) or "returned"
    transaction,          \* the event run matched in its last iteration
    res,                  \* the Result of that iteration
    main_pc,              \* where main is: "stream", "observe", "failed", "exported"
    exported,             \* what export_wallets returned to main
    settlements,          \* history: for each (client, tx_id) with an accepted Dispute, what
                          \* Resolves and ChargeBacks have done since the latest such Dispute
    reference,            \* history: the wallets and the journal that applying the events
                          \* sent so far one after the other, in the order sent, leaves
    stats                 \* history: the clients of the events sent, those of the Deposits
                          \* sent, and how many events run has applied, how many of them it
                          \* rejected and how many failures it has put on the failure channel,
                          \* and for each client the amounts of the Deposits applied less
                          \* those of the accepted Withdrawals and ChargeBacks

vars == <<wallets, transaction_journal, tx_chan, tx_closed, sent, err_chan, err_open,
          run_pc, transaction, res, main_pc, exported, settlements, reference, stats>>

NoTransaction == [kind |-> "None"]
NoResult == [ok |-> TRUE, none |-> TRUE]

\* WalletManager::init and the two channels of main, before anything runs.
Init ==
    /\ wallets = EmptyMap
    /\ transaction_journal = EmptyMap
    /\ tx_chan = << >>
    /\ tx_closed = FALSE
    /\ sent = 0
    /\ err_chan = << >>
    /\ err_open = TRUE
    /\ run_pc = "recv"
    /\ transaction = NoTransaction
    /\ res = NoResult
    /\ main_pc = "stream"
    /\ exported = {}
    /\ settlements = EmptyMap
    /\ reference = [wallets |-> EmptyMap, journal |-> EmptyMap]
    /\ stats = [seen |-> {}, depositors |-> {}, applied |-> 0, rejected |-> 0, emitted |-> 0,
                net |-> [c \in Clients |-> 0]]

\* ------------------------------------------------- wallet_manager.rs: run
\* DashMap::get / HashMap::get as a test for presence.
Has(m, k) == k \in DOMAIN m

\* The arms of the match in run.  Each takes the two maps and the event's
\* fields and yields the maps it leaves behind and the arm's Result.
Arm_Deposit(ws, tj, client, tx_id, amount) ==
    [wallets |-> Insert(ws, client,
                    Wallet_deposit(IF Has(ws, client) THEN ws[client] ELSE Wallet_new(client),
                                   tx_id, amount)),
     journal |-> Insert(tj, client,
                    Insert(IF Has(tj, client) THEN tj[client] ELSE EmptyMap,
                           tx_id, Deposit(client, tx_id, amount))),
     res |-> Ok]

\* Mutant of Arm_Withdrawal: the wallet is fetched with entry().or_insert_with,
\* as the Deposit arm does, so a withdrawal creates a missing account.
Arm_Withdrawal_Creates(ws, tj, client, tx_id, amount) ==
    LET r == Wallet_withdraw(IF Has(ws, client) THEN ws[client] ELSE Wallet_new(client),
                             tx_id, amount) IN
    [wallets |-> Insert(ws, client, r.wallet),
     journal |-> IF r.res.ok
                 THEN Insert(tj, client,
                          Insert(IF Has(tj, client) THEN tj[client] ELSE EmptyMap,
                                 tx_id, Withdrawal(client, tx_id, amount)))
                 ELSE tj,
     res |-> r.res]

\* Mutant of Arm_Withdrawal: the withdrawal is journaled whether or not the
\* wallet accepted it.
Arm_Withdrawal_JournalsRejected(ws, tj, client, tx_id, amount) ==
    IF Has(ws, client)
    THEN LET r == Wallet_withdraw(ws[client], tx_id, amount) IN
         [wallets |-> Insert(ws, client, r.wallet),
          journal |-> Insert(tj, client,
                          Insert(IF Has(tj, client) THEN tj[client] ELSE EmptyMap,
                                 tx_id, Withdrawal(client, tx_id, amount))),
          res |-> r.res]
    ELSE [wallets |-> ws, journal |-> tj, res |-> Err(Failure_no_wallet(client, tx_id))]

Arm_Withdrawal(ws, tj, client, tx_id, amount) ==
    IF Has(ws, client)
    THEN LET r == Wallet_withdraw(ws[client], tx_id, amount) IN
         [wallets |-> Insert(ws, client, r.wallet),
          journal |-> IF r.res.ok
                      THEN Insert(tj, client,
                               Insert(IF Has(tj, client) THEN tj[client] ELSE EmptyMap,
                                      tx_id, Withdrawal(client, tx_id, amount)))
                      ELSE tj,
          res |-> r.res]
    ELSE [wallets |-> ws, journal |-> tj, res |-> Err(Failure_no_wallet(client, tx_id))]

\* Mutant of JournalLookup: the transaction id is looked up in every client's
\* journal, not only in the disputing client's.
JournalLookup_AnyClient(tj, client, tx_id) ==
    IF Has(tj, client) /\ Has(tj[client], tx_id) THEN tj[client][tx_id]
    ELSE IF \E b \in DOMAIN tj : Has(tj[b], tx_id)
         THEN tj[CHOOSE b \in DOMAIN tj : Has(tj[b], tx_id)][tx_id]
         ELSE NoTransaction

\* transaction_journal.get(&client).and_then(|txs| txs.get(&tx_id).cloned())
JournalLookup(tj, client, tx_id) ==
    IF Has(tj, client) /\ Has(tj[client], tx_id) THEN tj[client][tx_id] ELSE NoTransaction

\* Mutant of Arm_Dispute: any journaled transaction is disputed, a Withdrawal
\* like a Deposit.
Arm_Dispute_AnyKind(ws, tj, client, tx_id) ==
    LET tx == JournalLookup(tj, client, tx_id) IN
    CASE tx.kind \in {"Deposit", "Withdrawal"} ->
            IF Has(ws, client)
            THEN [wallets |-> Insert(ws, client, Wallet_dispute(ws[client], tx_id, tx.amount)),
                  journal |-> tj, res |-> Ok]
            ELSE [wallets |-> ws, journal |-> tj, res |-> Err(Failure_no_wallet(client, tx_id))]
      [] OTHER ->
            [wallets |-> ws, journal |-> tj,
             res |-> Err(Failure_new(client, tx_id, DisputeNotFoundReason))]

Arm_Dispute(ws, tj, client, tx_id) ==
    LET tx == JournalLookup(tj, client, tx_id) IN
    CASE tx.kind = "Deposit" ->
            IF Has(ws, client)
            THEN [wallets |-> Insert(ws, client, Wallet_dispute(ws[client], tx_id, tx.amount)),
                  journal |-> tj, res |-> Ok]
            ELSE [wallets |-> ws, journal |-> tj, res |-> Err(Failure_no_wallet(client, tx_id))]
      [] tx.kind = "Withdrawal" ->
            [wallets |-> ws, journal |-> tj,
             res |-> Err(Failure_new(client, tx_id, DisputeWithdrawReason))]
      [] OTHER ->
            [wallets |-> ws, journal |-> tj,
             res |-> Err(Failure_new(client, tx_id, DisputeNotFoundReason))]

Arm_Resolve(ws, tj, client, tx_id) ==
    IF Has(ws, client)
    THEN LET r == Wallet_settle_dispute(ws[client], tx_id) IN
         [wallets |-> Insert(ws, client, r.wallet), journal |-> tj, res |-> r.res]
    ELSE [wallets |-> ws, journal |-> tj, res |-> Err(Failure_no_wallet(client, tx_id))]

\* Mutant of Arm_ChargeBack: an accepted charge back locks every account, not
\* only the client's.
Arm_ChargeBack_LocksAll(ws, tj, client, tx_id) ==
    IF Has(ws, client)
    THEN LET r == Wallet_charge_back(ws[client], tx_id)
             w == Insert(ws, client, r.wallet) IN
         [wallets |-> IF r.res.ok
                      THEN [d \in DOMAIN w |-> [w[d] EXCEPT !.locked = TRUE]]
                      ELSE w,
          journal |-> tj, res |-> r.res]
    ELSE [wallets |-> ws, journal |-> tj, res |-> Err(Failure_no_wallet(client, tx_id))]

Arm_ChargeBack(ws, tj, client, tx_id) ==
    IF Has(ws, client)
    THEN LET r == Wallet_charge_back(ws[client], tx_id) IN
         [wallets |-> Insert(ws, client, r.wallet), journal |-> tj, res |-> r.res]
    ELSE [wallets |-> ws, journal |-> tj, res |-> Err(Failure_no_wallet(client, tx_id))]

\* let res = match transaction { ... }
Apply(ws, tj, ev) ==
    CASE ev.kind = "Deposit"    -> Arm_Deposit(ws, tj, ev.client, ev.tx_id, ev.amount)
      [] ev.kind = "Withdrawal" -> Arm_Withdrawal(ws, tj, ev.client, ev.tx_id, ev.amount)
      [] ev.kind = "Dispute"    -> Arm_Dispute(ws, tj, ev.client, ev.tx_id)
      [] ev.kind = "Resolve"    -> Arm_Resolve(ws, tj, ev.client, ev.tx_id)
      [] ev.kind = "ChargeBack" -> Arm_ChargeBack(ws, tj, ev.client, ev.tx_id)

\* Mutant of Report: run leaves its loop after any failure, delivered or not.
Report_StopsOnFailure(r, chan, open) ==
    IF r.ok THEN [pc |-> "recv", chan |-> chan]
    ELSE IF open THEN [pc |-> "returned", chan |-> Append(chan, r.failure)]
    ELSE [pc |-> "returned", chan |-> chan]

\* if let Err(e) = res { if err_send.send(e).is_err() { break; } }
\* The pc and the failure channel after the iteration's Result r: a send to a
\* channel whose receiver is gone fails, and run leaves its loop.
Report(r, chan, open) ==
    IF r.ok THEN [pc |-> "recv", chan |-> chan]
    ELSE IF open THEN [pc |-> "recv", chan |-> Append(chan, r.failure)]
    ELSE [pc |-> "returned", chan |-> chan]

\* The history of settlements after the event ev ended with the Result r,
\* having taken the client's wallet from w to w2: the amount the latest accepted
\* Dispute removed from available, what accepted Resolves have put back into
\* available and accepted ChargeBacks have taken out of total since, how
\* many of them there were, and whether that Dispute reopened a transaction
\* whose earlier dispute a Resolve had put back.
Settle(h, ev, r, w, w2) ==
    LET k == <<ev.client, ev.tx_id>> IN
    CASE r.ok /\ ev.kind = "Dispute" ->
            Insert(h, k, [amount |-> w.balance.available - w2.balance.available,
                          restored |-> 0, charged_back |-> 0, settled |-> 0,
                          reopened |-> Has(h, k) /\ h[k].restored > 0])
      [] r.ok /\ ev.kind = "Resolve" ->
            [h EXCEPT ![k].restored = @ + (w2.balance.available - w.balance.available),
                      ![k].settled = @ + 1]
      [] r.ok /\ ev.kind = "ChargeBack" ->
            [h EXCEPT ![k].charged_back = @ + (w.balance.total - w2.balance.total),
                      ![k].settled = @ + 1]
      [] OTHER -> h

\* What the event ev, ended with the Result r, adds to the client's net
\* transfers: the amount of a Deposit, minus the amount of an accepted
\* Withdrawal, minus the disputed amount of an accepted ChargeBack as the
\* history h of settlements has it, and nothing otherwise.
Transferred(h, ev, r) ==
    CASE r.ok /\ ev.kind = "Deposit" -> ev.amount
      [] r.ok /\ ev.kind = "Withdrawal" -> 0 - ev.amount
      [] r.ok /\ ev.kind = "ChargeBack" -> 0 - h[<<ev.client, ev.tx_id>>].amount
      [] OTHER -> 0

\* One iteration of the while-let loop of run on the event at the head of the
\* transaction channel: receive, match, report.
Iterate(kind) ==
    /\ run_pc = "recv"
    /\ tx_chan # << >>
    /\ Head(tx_chan).kind = kind
    /\ LET ev  == Head(tx_chan)
           out == Apply(wallets, transaction_journal, ev)
           rep == Report(out.res, err_chan, err_open)
       IN /\ wallets' = out.wallets
          /\ transaction_journal' = out.journal
          /\ transaction' = ev
          /\ res' = out.res
          /\ tx_chan' = Tail(tx_chan)
          /\ err_chan' = rep.chan
          /\ run_pc' = rep.pc
          /\ settlements' = IF out.res.ok /\ Has(wallets, ev.client)
                             THEN Settle(settlements, ev, out.res,
                                         wallets[ev.client], out.wallets[ev.client])
                             ELSE settlements
          /\ stats' = [stats EXCEPT
                          !.applied = @ + 1,
                          !.rejected = IF out.res.ok THEN @ ELSE @ + 1,
                          !.emitted = @ + (Len(rep.chan) - Len(err_chan)),
                          !.net[ev.client] = @ + Transferred(settlements, ev, out.res)]
    /\ UNCHANGED <<tx_closed, sent, err_open, main_pc, exported, reference>>

RunDeposit    == Iterate("Deposit")
RunWithdrawal == Iterate("Withdrawal")
RunDispute    == Iterate("Dispute")
RunResolve    == Iterate("Resolve")
RunChargeBack == Iterate("ChargeBack")

\* tx_recv.recv() yields None once the channel is closed and empty: run returns.
RunExhausted ==
    /\ run_pc = "recv"
    /\ tx_chan = << >>
    /\ tx_closed
    /\ run_pc' = "returned"
    /\ UNCHANGED <<wallets, transaction_journal, tx_chan, tx_closed, sent, err_chan,
                   err_open, transaction, res, main_pc, exported, settlements, reference, stats>>

\* Mutant of export_wallets: locked accounts are left out of the snapshot.
export_wallets_Unlocked(ws) == {ws[c] : c \in {d \in DOMAIN ws : ~ws[d].locked}}

\* WalletManager::export_wallets: the wallets, in no particular order.
export_wallets(ws) == {ws[c] : c \in DOMAIN ws}

\* ------------------------------------------------------------- main.rs
\* stream_csv_into_channel sends one parsed row.  The channel is unbounded; the
\* model caps what is in flight at MaxQueue and the stream at MaxEvents.
SendFrom(events) ==
    /\ main_pc = "stream"
    /\ sent < MaxEvents
    /\ Len(tx_chan) < MaxQueue
    /\ \E ev \in events :
          /\ tx_chan' = Append(tx_chan, ev)
          /\ reference' = LET o == Apply(reference.wallets, reference.journal, ev)
                          IN [wallets |-> o.wallets, journal |-> o.journal]
          /\ stats' = [stats EXCEPT
                          !.seen = @ \cup {ev.client},
                          !.depositors = IF ev.kind = "Deposit" THEN @ \cup {ev.client} ELSE @]
    /\ sent' = sent + 1
    /\ UNCHANGED <<wallets, transaction_journal, tx_closed, err_chan, err_open, run_pc,
                   transaction, res, main_pc, exported, settlements>>

Send == SendFrom(Transaction)

\* The stream ends: the sender is dropped, main spawns the failure observer
\* and awaits the runner.
StreamEnds ==
    /\ main_pc = "stream"
    /\ main_pc' = "observe"
    /\ tx_closed' = TRUE
    /\ UNCHANGED <<wallets, transaction_journal, tx_chan, sent, err_chan, err_open, run_pc,
                   transaction, res, exported, settlements, reference, stats>>

\* The stream fails (the file cannot be opened or a row cannot be read): main
\* returns through `?`, which drops the sender and the failure receiver while
\* the spawned runner may still be running.
StreamFails ==
    /\ main_pc = "stream"
    /\ main_pc' = "failed"
    /\ tx_closed' = TRUE
    /\ err_open' = FALSE
    /\ err_chan' = << >>
    /\ UNCHANGED <<wallets, transaction_journal, tx_chan, sent, run_pc,
                   transaction, res, exported, settlements, reference, stats>>

\* The observer task receives one failure and logs it.
Observe ==
    /\ main_pc \in {"observe", "exported"}
    /\ err_chan # << >>
    /\ err_chan' = Tail(err_chan)
    /\ UNCHANGED <<wallets, transaction_journal, tx_chan, tx_closed, sent, err_open, run_pc,
                   transaction, res, main_pc, exported, settlements, reference, stats>>

\* Mutant of Export: main exports without awaiting the run task.
Export_WithoutJoin ==
    /\ main_pc = "observe"
    /\ exported' = export_wallets(wallets)
    /\ main_pc' = "exported"
    /\ UNCHANGED <<wallets, transaction_journal, tx_chan, tx_closed, sent, err_chan, err_open,
                   run_pc, transaction, res, settlements, reference, stats>>

\* wallet_manager_runner.await, then export_wallets.
Export ==
    /\ main_pc = "observe"
    /\ run_pc = "returned"
    /\ exported' = export_wallets(wallets)
    /\ main_pc' = "exported"
    /\ UNCHANGED <<wallets, transaction_journal, tx_chan, tx_closed, sent, err_chan, err_open,
                   run_pc, transaction, res, settlements, reference, stats>>

Next ==
    \/ RunDeposit
    \/ RunWithdrawal
    \/ RunDispute
    \/ RunResolve
    \/ RunChargeBack
    \/ RunExhausted
    \/ Send
    \/ StreamEnds
    \/ StreamFails
    \/ Observe
    \/ Export

Spec == Init /\ [][Next]_vars

\* ------------------------------------------------ fair scheduling of run
\* The events of one transaction id with the largest amount: the stream of the
\* fair specification, in which termination does not depend on the amounts.
LiveEvents ==
    {ev \in Transaction :
        ev.tx_id = 1 /\ (ev.kind \in {"Deposit", "Withdrawal"} => ev.amount = MaxAmount)}

SendLive == SendFrom(LiveEvents)

\* A step of the task main spawned for run.
RunStep ==
    \/ RunDeposit
    \/ RunWithdrawal
    \/ RunDispute
    \/ RunResolve
    \/ RunChargeBack
    \/ RunExhausted

NextLive ==
    \/ RunDeposit
    \/ RunWithdrawal
    \/ RunDispute
    \/ RunResolve
    \/ RunChargeBack
    \/ RunExhausted
    \/ SendLive
    \/ StreamEnds
    \/ StreamFails
    \/ Observe
    \/ Export

\* The runtime polls the spawned run task whenever its recv can complete: an
\* event is queued, or the channel is closed.
SpecLive == Init /\ [][NextLive]_vars /\ WF_vars(RunStep)

\* ======================================================== properties
\* The step is an iteration of run: it received the event at the head of the
\* transaction channel (no other step removes an event from the channel).
Applied ==
    /\ run_pc = "recv"
    /\ tx_chan # << >>
    /\ tx_chan' = Tail(tx_chan)

\* The step is an iteration of run on an event of one of the kinds.
Applies(kinds) == Applied /\ Head(tx_chan).kind \in kinds

RECURSIVE SumOver(_, _)
SumOver(m, keys) ==
    IF keys = {} THEN 0
    ELSE LET k == CHOOSE x \in keys : TRUE IN m[k] + SumOver(m, keys \ {k})

\* The sum of the amounts recorded in a HashMap<TransactionId, Amount>.
SumAmounts(m) == SumOver(m, DOMAIN m)

\* (client, tx_id) has an accepted Dispute that no accepted Resolve or
\* ChargeBack has followed.
UnderDispute(c, t) ==
    /\ Has(settlements, <<c, t>>)
    /\ settlements[<<c, t>>].settled = 0

\* C1: after every event applied by run, whatever the sequence of events and
\* whether each was accepted or rejected, every account has
\* total = available + held.
C1_TotalIsAvailablePlusHeld ==
    \A c \in DOMAIN wallets :
        wallets[c].balance.total = wallets[c].balance.available + wallets[c].balance.held

\* An account that has been charged back and holds funds under dispute again.
C1_Witness ==
    \E c \in DOMAIN wallets :
        /\ wallets[c].locked
        /\ wallets[c].balance.held > 0
        /\ transaction.kind = "Dispute" /\ res.ok

\* C2: in every reachable state every account's available, held and total
\* are each >= 0.
C2_BalancesNonNegative ==
    \A c \in DOMAIN wallets :
        /\ wallets[c].balance.available >= 0
        /\ wallets[c].balance.held >= 0
        /\ wallets[c].balance.total >= 0

\* C3: the amount an accepted Dispute of (client, tx_id) removed from
\* available is afterwards restored to available exactly once (by Resolve) or
\* taken out of total exactly once (by ChargeBack): at every moment none of it,
\* or all of it one way and none the other, never both and never more.
C3_SettledExactlyOnce ==
    \A k \in DOMAIN settlements :
        LET s == settlements[k] IN
        \/ s.restored = 0 /\ s.charged_back = 0
        \/ s.restored = s.amount /\ s.charged_back = 0
        \/ s.restored = 0 /\ s.charged_back = s.amount

\* C4: a Resolve or ChargeBack of a transaction id not currently under dispute
\* for that client (never disputed, or already resolved or charged back) is
\* rejected with the dispute-not-found failure of its operation and leaves the
\* account's available, held, total and locked unchanged.
C4_SettleNotUnderDisputeRejected ==
    [][LET ev == Head(tx_chan) IN
          (/\ Applies({"Resolve", "ChargeBack"})
           /\ Has(wallets, ev.client)
           /\ ~UnderDispute(ev.client, ev.tx_id))
          => /\ ~res'.ok
             /\ res'.failure.reason =
                   IF ev.kind = "Resolve" THEN SettleNotFoundReason ELSE ChargeBackNotFoundReason
             /\ wallets'[ev.client].balance = wallets[ev.client].balance
             /\ wallets'[ev.client].locked = wallets[ev.client].locked]_vars

\* C5: after every step, held equals the sum of the amounts recorded in the
\* account's open_disputes.
C5_HeldIsSumOfOpenDisputes ==
    \A c \in DOMAIN wallets :
        wallets[c].balance.held = SumAmounts(wallets[c].open_disputes)

\* C6: a Withdrawal for an existing account succeeds if and only if
\* available >= amount; on success it decreases available and total by amount
\* (held unchanged); otherwise it is rejected with the InsufficientFunds failure
\* and leaves the account unchanged; it never takes available from >= 0 to < 0.
C6_WithdrawIffAvailable ==
    [][LET ev == Head(tx_chan) IN
          (Applies({"Withdrawal"}) /\ Has(wallets, ev.client))
          => LET b  == wallets[ev.client].balance
                 b2 == wallets'[ev.client].balance
             IN /\ res'.ok <=> (b.available >= ev.amount)
                /\ res'.ok =>
                      b2 = [available |-> b.available - ev.amount,
                            held |-> b.held,
                            total |-> b.total - ev.amount]
                /\ ~res'.ok =>
                      /\ res'.failure = Failure_insufficient_funds(ev.client, ev.tx_id)
                      /\ wallets'[ev.client] = wallets[ev.client]
                /\ b.available >= 0 => b2.available >= 0]_vars

\* A withdrawal was rejected for insufficient funds on an account with funds
\* of its own (held under dispute, none available).
C6_Witness ==
    /\ transaction.kind = "Withdrawal"
    /\ ~res.ok
    /\ res.failure.reason = InsufficientFundsReason
    /\ Has(wallets, transaction.client)
    /\ wallets[transaction.client].balance.total > 0

\* C7: a Dispute whose (client, tx_id) is journaled as a Withdrawal, or has no
\* journal entry for that client, is rejected with a Failure and leaves every
\* account (balances, locked, open_disputes) unchanged.
C7_DisputeOfNonDepositRejected ==
    [][LET ev == Head(tx_chan) IN
          (/\ Applies({"Dispute"})
           /\ JournalLookup(transaction_journal, ev.client, ev.tx_id).kind # "Deposit")
          => /\ ~res'.ok
             /\ res'.failure.client = ev.client
             /\ res'.failure.tx = ev.tx_id
             /\ wallets' = wallets]_vars

\* A Dispute of a journaled Withdrawal was rejected.
C7_Witness ==
    /\ transaction.kind = "Dispute"
    /\ ~res.ok
    /\ res.failure.reason = DisputeWithdrawReason
    /\ wallets[transaction.client].balance.total > 0

\* C8: a Dispute{client A, tx_id} whose tx_id is journaled only under another
\* client B is rejected as transaction-not-found and changes no account.
C8_DisputeScopedPerClient ==
    [][LET ev == Head(tx_chan) IN
          (/\ Applies({"Dispute"})
           /\ ~(Has(transaction_journal, ev.client)
                /\ Has(transaction_journal[ev.client], ev.tx_id))
           /\ \E b \in DOMAIN transaction_journal :
                 b # ev.client /\ Has(transaction_journal[b], ev.tx_id))
          => /\ res' = Err(Failure_new(ev.client, ev.tx_id, DisputeNotFoundReason))
             /\ wallets' = wallets]_vars

\* Client A, who has an account with funds, disputed a tx_id that only another
\* client deposited, and was told the transaction was not found.
C8_Witness ==
    /\ transaction.kind = "Dispute"
    /\ ~res.ok
    /\ res.failure.reason = DisputeNotFoundReason
    /\ Has(wallets, transaction.client)
    /\ wallets[transaction.client].balance.available > 0
    /\ \E b \in DOMAIN transaction_journal :
          /\ b # transaction.client
          /\ Has(transaction_journal[b], transaction.tx_id)
          /\ transaction_journal[b][transaction.tx_id].kind = "Deposit"
          /\ transaction_journal[b][transaction.tx_id].amount > 0

\* C9: the failure receiver being gone does not stop event processing: run
\* has returned only when its input channel is closed and drained.
C9_StopsOnlyOnExhaustion ==
    run_pc = "returned" => (tx_closed /\ tx_chan = << >>)

\* C10: an account exists for a client exactly when a Deposit for that client
\* has been processed (accounts appear by Deposit steps only, and never
\* disappear), and a Withdrawal, Resolve or ChargeBack for a client with no
\* account yields the one NoWallet Failure carrying that client and tx id,
\* sent once on the failure channel when its receiver is alive, and creates
\* no account.
C10_AccountIffDeposit ==
    [][LET ev == Head(tx_chan) IN
       /\ DOMAIN wallets' =
             DOMAIN wallets \cup (IF Applies({"Deposit"}) THEN {ev.client} ELSE {})
       /\ (Applies({"Withdrawal", "Resolve", "ChargeBack"}) /\ ~Has(wallets, ev.client))
             => /\ res' = Err(Failure_no_wallet(ev.client, ev.tx_id))
                /\ err_chan' = IF err_open
                               THEN Append(err_chan, Failure_no_wallet(ev.client, ev.tx_id))
                               ELSE err_chan
                /\ wallets' = wallets]_vars

\* A Resolve for a client without an account was answered with NoWallet, the
\* failure is on the failure channel, and the client still has no account.
C10_Witness ==
    /\ transaction.kind = "Resolve"
    /\ ~res.ok
    /\ res.failure.reason = NoWalletReason
    /\ ~Has(wallets, transaction.client)
    /\ err_chan # << >>
    /\ err_chan[Len(err_chan)] = res.failure
    /\ wallets # EmptyMap

\* C11: a Dispute for a client whose account does not exist is rejected with
\* the NoWallet failure, the one a Withdrawal, Resolve or ChargeBack on an
\* absent account gets.
C11_DisputeWithoutAccountIsNoWallet ==
    [][LET ev == Head(tx_chan) IN
          (Applies({"Dispute"}) /\ ~Has(wallets, ev.client))
          => res' = Err(Failure_no_wallet(ev.client, ev.tx_id))]_vars

\* C12: an accepted Dispute of a journaled deposit moves exactly the journaled
\* amount from available to held, total and locked unchanged; a Resolve of a
\* transaction under dispute moves exactly the amount that Dispute moved back
\* from held to available, total and locked unchanged, which returns the three
\* balances to their values before the Dispute; and deposit A, dispute,
\* resolve as the only three events leave available = A, held = 0, total = A,
\* locked = false.
C12_DisputeThenResolveRestores ==
    /\ [][LET ev == Head(tx_chan)
              c  == ev.client
              k  == <<ev.client, ev.tx_id>>
          IN
          /\ (Applies({"Dispute"}) /\ res'.ok)
             => LET d == transaction_journal[c][ev.tx_id].amount
                    b == wallets[c].balance
                IN /\ wallets'[c].balance =
                         [available |-> b.available - d, held |-> b.held + d, total |-> b.total]
                   /\ wallets'[c].locked = wallets[c].locked
                   /\ settlements'[k].amount = d
          /\ (Applies({"Resolve"}) /\ Has(wallets, c) /\ UnderDispute(c, ev.tx_id))
             => LET d == settlements[k].amount
                    b == wallets[c].balance
                IN /\ res'.ok
                   /\ wallets'[c].balance =
                         [available |-> b.available + d, held |-> b.held - d, total |-> b.total]
                   /\ wallets'[c].locked = wallets[c].locked]_vars
    /\ [](LET c == transaction.client
              t == transaction.tx_id
          IN (/\ stats.applied = 3
              /\ stats.rejected = 0
              /\ transaction.kind = "Resolve")
             => /\ wallets[c].balance =
                      [available |-> transaction_journal[c][t].amount, held |-> 0,
                       total |-> transaction_journal[c][t].amount]
                /\ ~wallets[c].locked)

\* Deposit of a positive amount, Dispute and Resolve, all accepted, were the
\* only three events applied.
C12_Witness ==
    /\ stats.applied = 3
    /\ stats.rejected = 0
    /\ transaction.kind = "Resolve"
    /\ wallets[transaction.client].balance.available > 0
    /\ wallets[transaction.client].balance.held = 0

\* C13: a ChargeBack of a transaction under dispute is accepted, decreases held
\* and total by the disputed amount, leaves available unchanged and sets
\* locked; deposit A, dispute, chargeback as the only three events leave
\* available = 0, held = 0, total = 0, locked = true.
C13_ChargeBackTakesHeldAndLocks ==
    /\ [][LET ev == Head(tx_chan)
              c  == ev.client
          IN (Applies({"ChargeBack"}) /\ Has(wallets, c) /\ UnderDispute(c, ev.tx_id))
             => LET d == settlements[<<c, ev.tx_id>>].amount
                    b == wallets[c].balance
                IN /\ res'.ok
                   /\ wallets'[c].balance =
                         [available |-> b.available, held |-> b.held - d, total |-> b.total - d]
                   /\ wallets'[c].locked]_vars
    /\ []((/\ stats.applied = 3
           /\ stats.rejected = 0
           /\ transaction.kind = "ChargeBack")
          => /\ wallets[transaction.client].balance = [available |-> 0, held |-> 0, total |-> 0]
             /\ wallets[transaction.client].locked)

\* Deposit of a positive amount, Dispute and ChargeBack, all accepted, were the
\* only three events applied.
C13_Witness ==
    /\ stats.applied = 3
    /\ stats.rejected = 0
    /\ transaction.kind = "ChargeBack"
    /\ transaction_journal[transaction.client][transaction.tx_id].amount > 0
    /\ wallets[transaction.client].locked

\* The account of client c with available = total = a, nothing held, not
\* locked and no dispute recorded: a fresh account after a deposit of a.
HoldsOnly(c, a) ==
    [client |-> c, balance |-> [available |-> a, held |-> 0, total |-> a],
     locked |-> FALSE, open_disputes |-> EmptyMap]

\* C14: for any amount A, a Deposit of A for a client without an account is
\* accepted and leaves a fresh account holding A; a Withdrawal of A from such
\* an account is accepted and leaves available = 0, held = 0, total = 0,
\* locked = false; and when that Deposit and that Withdrawal were the only
\* events, the exported snapshot holds exactly that one account.
C14_DepositThenWithdrawIsZero ==
    /\ [][LET ev == Head(tx_chan)
              c  == ev.client
          IN
          /\ (Applies({"Deposit"}) /\ ~Has(wallets, c))
             => res'.ok /\ wallets'[c] = HoldsOnly(c, ev.amount)
          /\ (Applies({"Withdrawal"}) /\ Has(wallets, c)
                 /\ wallets[c] = HoldsOnly(c, ev.amount))
             => res'.ok /\ wallets'[c] = HoldsOnly(c, 0)]_vars
    /\ [](LET c == transaction.client IN
          (/\ main_pc = "exported"
           /\ stats.applied = 2
           /\ stats.rejected = 0
           /\ transaction.kind = "Withdrawal"
           /\ \E t \in DOMAIN transaction_journal[c] :
                 /\ transaction_journal[c][t].kind = "Deposit"
                 /\ transaction_journal[c][t].amount = transaction.amount)
          => exported = {HoldsOnly(c, 0)})

\* A Deposit of a positive amount and a Withdrawal of the same amount were the
\* only events, both were accepted, and main has exported.
C14_Witness ==
    /\ main_pc = "exported"
    /\ stats.applied = 2
    /\ stats.rejected = 0
    /\ transaction.kind = "Withdrawal"
    /\ transaction.amount > 0
    /\ \E t \in DOMAIN transaction_journal[transaction.client] :
          /\ transaction_journal[transaction.client][t].kind = "Deposit"
          /\ transaction_journal[transaction.client][t].amount = transaction.amount
    /\ Cardinality(exported) = 1

\* C15: every applied event ends in silent success (nothing is sent) or in
\* exactly one Failure carrying that event's client and tx id; while the
\* failure receiver is alive that Failure is sent once, run goes on to the
\* next event, the failures sent number the events rejected, and run returns
\* only when every event sent has been applied.
C15_OneFailurePerRejectedEvent ==
    /\ [][Applied =>
             LET ev == Head(tx_chan) IN
             /\ res'.ok => err_chan' = err_chan
             /\ ~res'.ok =>
                   /\ res'.failure.client = ev.client
                   /\ res'.failure.tx = ev.tx_id
                   /\ err_open => err_chan' = Append(err_chan, res'.failure)
             /\ err_open => run_pc' = "recv"
             /\ stats'.applied = stats.applied + 1]_vars
    /\ [](err_open =>
             /\ stats.emitted = stats.rejected
             /\ run_pc = "returned" => (tx_chan = << >> /\ stats.applied = sent))

\* With the receiver alive, run applied four events, rejected two of them and
\* accepted the one after a rejected one, and has returned.
C15_Witness ==
    /\ err_open
    /\ run_pc = "returned"
    /\ stats.applied = MaxEvents
    /\ stats.rejected = 2
    /\ stats.emitted = 2
    /\ res.ok

\* The clients that have an entry in a snapshot.
ClientsOf(snapshot) == {w.client : w \in snapshot}

\* C16 as stated: the snapshot export_wallets returns at stream end contains
\* exactly one entry per client ever seen in the event stream, the clients
\* whose only events were rejected included.
C16_SnapshotHasEveryClientSeen ==
    main_pc = "exported" =>
        /\ ClientsOf(exported) = stats.seen
        /\ Cardinality(exported) = Cardinality(stats.seen)

\* C16 as amended: the snapshot export_wallets returns at stream end contains
\* exactly one entry per client with a Deposit in the event stream, and none
\* for any other client.
C16_SnapshotHasEveryDepositor ==
    main_pc = "exported" =>
        /\ ClientsOf(exported) = stats.depositors
        /\ Cardinality(exported) = Cardinality(stats.depositors)

\* A snapshot with an account was exported after a stream in which one client
\* had events and no Deposit.
C16_Witness ==
    /\ main_pc = "exported"
    /\ exported # {}
    /\ stats.seen \ stats.depositors # {}

\* The wallets with the locked flag of client c's account, if it has one,
\* turned over.
FlipLocked(ws, c) ==
    IF Has(ws, c) THEN [ws EXCEPT ![c].locked = ~@] ELSE ws

\* What the wallets hold apart from the locked flags.
Unflagged(ws) ==
    [c \in DOMAIN ws |-> [balance |-> ws[c].balance, open_disputes |-> ws[c].open_disputes]]

\* C17: the locked flag never gates processing: whatever event run applies, on
\* the same state with the locked flag of the event's account turned over the
\* Result (accepted or rejected, and the Failure), the resulting available,
\* held, total and open_disputes of every account and the resulting journal
\* are the same.
C17_LockedNeverGates ==
    [][Applied =>
          LET ev == Head(tx_chan)
              o  == Apply(FlipLocked(wallets, ev.client), transaction_journal, ev)
          IN /\ o.res = res'
             /\ Unflagged(o.wallets) = Unflagged(wallets')
             /\ o.journal = transaction_journal']_vars

\* A Deposit of a positive amount was accepted on a locked account.
C17_Witness ==
    /\ transaction.kind = "Deposit"
    /\ res.ok
    /\ transaction.amount > 0
    /\ wallets[transaction.client].locked
    /\ wallets[transaction.client].balance.available > 0

\* Once the input channel is closed, run eventually returns.
RunTerminates == tx_closed ~> (run_pc = "returned")

\* C18: under fair scheduling, once the producer has closed the input channel
\* run eventually returns, and it returns only when every queued event has
\* been received.
C18_RunTerminatesAfterDraining ==
    /\ RunTerminates
    /\ [][(run_pc = "recv" /\ run_pc' = "returned") => tx_chan' = << >>]_vars

\* The (client, tx_id) pairs the journal tj holds an entry under.
JournalKeys(tj) == {k \in Clients \X TxIds : Has(tj, k[1]) /\ Has(tj[k[1]], k[2])}

\* C19: the journal starts empty; an applied event adds the entry of its own
\* (client, tx_id) exactly when it is a Deposit or an accepted Withdrawal, and
\* that entry is the event; a rejected Withdrawal and every Dispute, Resolve
\* and ChargeBack leave the journal as it was; no entry is removed or changed
\* by an event of another key; and a Dispute of a journaled Deposit that is not
\* under dispute, whether never disputed or disputed and settled since, is
\* accepted and holds the journaled amount.
C19_JournalHoldsAppliedTransfers ==
    /\ [](stats.applied = 0 => transaction_journal = EmptyMap)
    /\ [][Applied =>
             LET ev == Head(tx_chan)
                 c  == ev.client
                 k  == <<ev.client, ev.tx_id>>
                 recorded == ev.kind \in {"Deposit", "Withdrawal"} /\ res'.ok
                 tx == JournalLookup(transaction_journal, c, ev.tx_id)
             IN /\ JournalKeys(transaction_journal') =
                      JournalKeys(transaction_journal) \cup (IF recorded THEN {k} ELSE {})
                /\ recorded => transaction_journal'[c][ev.tx_id] = ev
                /\ ~recorded => transaction_journal' = transaction_journal
                /\ \A j \in JournalKeys(transaction_journal) \ {k} :
                      transaction_journal'[j[1]][j[2]] = transaction_journal[j[1]][j[2]]
                /\ (ev.kind = "Dispute" /\ tx.kind = "Deposit" /\ ~UnderDispute(c, ev.tx_id))
                      => /\ res'.ok
                         /\ wallets'[c].balance.held = wallets[c].balance.held + tx.amount]_vars

\* A Dispute of a journaled Deposit was accepted after an earlier dispute of it
\* had been resolved, and holds the journaled amount again.
C19_Witness ==
    /\ transaction.kind = "Dispute"
    /\ res.ok
    /\ LET k == <<transaction.client, transaction.tx_id>> IN
          /\ Has(settlements, k)
          /\ settlements[k].reopened
          /\ settlements[k].settled = 0
          /\ settlements[k].amount > 0
          /\ settlements[k].amount = transaction_journal[k[1]][k[2]].amount
          /\ wallets[k[1]].balance.held = settlements[k].amount

\* C20: an applied event of client c, accepted or rejected, leaves every other
\* client's wallet and journal as they were, their absence included.
C20_OtherClientsUntouched ==
    [][Applied =>
          \A d \in Clients \ {Head(tx_chan).client} :
              /\ Has(wallets', d) = Has(wallets, d)
              /\ Has(wallets, d) => wallets'[d] = wallets[d]
              /\ Has(transaction_journal', d) = Has(transaction_journal, d)
              /\ Has(transaction_journal, d) =>
                    transaction_journal'[d] = transaction_journal[d]]_vars

\* A ChargeBack was accepted for one client while another client holds an
\* unlocked account with funds and a journal.
C20_Witness ==
    /\ transaction.kind = "ChargeBack"
    /\ res.ok
    /\ wallets[transaction.client].locked
    /\ \E d \in Clients \ {transaction.client} :
          /\ Has(wallets, d)
          /\ ~wallets[d].locked
          /\ wallets[d].balance.total > 0
          /\ Has(transaction_journal, d)

\* The wallets and the journal after applying the events of evs one after the
\* other, first to last, to the wallets ws and the journal tj.
RECURSIVE ApplyAll(_, _, _)
ApplyAll(ws, tj, evs) ==
    IF evs = << >> THEN [wallets |-> ws, journal |-> tj]
    ELSE LET o == Apply(ws, tj, Head(evs))
         IN ApplyAll(o.wallets, o.journal, Tail(evs))

\* C21: under every interleaving of the producer, run and the observer, what
\* run has applied followed by what is still queued is the events sent, in
\* the order sent, and the snapshot main exports is the one that applying
\* every event sent, one after the other in that order, leaves.
C21_ExportIsSequentialResult ==
    /\ (run_pc = "recv" \/ main_pc = "exported")
          => ApplyAll(wallets, transaction_journal, tx_chan) = reference
    /\ main_pc = "exported"
          => /\ run_pc = "returned"
             /\ tx_chan = << >>
             /\ exported = export_wallets(reference.wallets)

\* main exported two accounts after a stream of MaxEvents events of which one
\* was rejected and one left funds held.
C21_Witness ==
    /\ main_pc = "exported"
    /\ sent = MaxEvents
    /\ stats.rejected > 0
    /\ Cardinality(exported) = 2
    /\ \E w \in exported : w.balance.held > 0

\* C22: in every reachable state the total of each account is the sum of the
\* amounts of the Deposits applied for its client, less the amounts of its
\* accepted Withdrawals and the disputed amounts of its accepted ChargeBacks;
\* Disputes, Resolves and rejected events add nothing to that sum, and a
\* client without an account has none.
C22_TotalIsNetTransfers ==
    \A c \in Clients :
        IF Has(wallets, c) THEN wallets[c].balance.total = stats.net[c]
        ELSE stats.net[c] = 0

\* A ChargeBack of a positive disputed amount was accepted and took the
\* account's total back to zero.
C22_Witness ==
    /\ transaction.kind = "ChargeBack"
    /\ res.ok
    /\ LET k == <<transaction.client, transaction.tx_id>> IN
          /\ settlements[k].charged_back > 0
          /\ settlements[k].settled = 1
          /\ wallets[k[1]].balance.total = 0

====
